---- MODULE Spec2Model ----
(***************************************************************************)
(* Model of mmedit/core/optimizer/builder.py: build_optimizer and          *)
(* build_optimizers.                                                       *)
(*                                                                         *)
(* Strings that the code inspects character by character (parameter and    *)
(* module names) are sequences of one-character strings.  Dictionaries are *)
(* insertion-ordered sequences of <<key, value>> pairs living in a heap of *)
(* objects addressed by reference, so that copying and aliasing are        *)
(* observable.  Floating point products are integer products.              *)
(***************************************************************************)
EXTENDS Integers, Sequences, FiniteSets, TLC

VARIABLES model, cfgs, heap, ncaller, pc, is_dict_of_dict, idx, optimizers,
          constructed, ret

vars == <<model, cfgs, heap, ncaller, pc, is_dict_of_dict, idx, optimizers,
          constructed, ret>>

\* ---------------------------------------------------------------- bounds
MaxLayers == 2
MaxKeys == 3

\* ---------------------------------------------------------------- strings
\* The characters of the identifiers that occur in the inputs.
Chars(s) ==
    CASE s = "" -> <<>>
      [] s = "weight" -> <<"w", "e", "i", "g", "h", "t">>
      [] s = "bias" -> <<"b", "i", "a", "s">>
      [] s = ".weight" -> <<".", "w", "e", "i", "g", "h", "t">>
      [] s = ".bias" -> <<".", "b", "i", "a", "s">>
      [] s = "bn" -> <<"b", "n">>
      [] s = "gn" -> <<"g", "n">>
      [] s = "conv" -> <<"c", "o", "n", "v">>
      [] s = "bn1" -> <<"b", "n", "1">>
      [] s = "align" -> <<"a", "l", "i", "g", "n">>
      [] s = "g" -> <<"g">>
      [] s = "." -> <<".">>

Digits == {"0", "1", "2", "3", "4", "5", "6", "7", "8", "9"}

\* s[i..] starts with the characters of t
StartsAt(s, i, t) ==
    /\ i >= 1
    /\ i + Len(t) - 1 <= Len(s)
    /\ \A k \in 1..Len(t) : s[i + k - 1] = t[k]

\* str.endswith
EndsWith(s, t) == Len(s) >= Len(t) /\ StartsAt(s, Len(s) - Len(t) + 1, t)

\* str.replace(t, ''): every non-overlapping occurrence, left to right
RECURSIVE Remove(_, _)
Remove(s, t) ==
    IF Len(s) < Len(t) THEN s
    ELSE IF StartsAt(s, 1, t) THEN Remove(SubSeq(s, Len(t) + 1, Len(s)), t)
    ELSE <<Head(s)>> \o Remove(Tail(s), t)

\* re.search(r'(bn|gn)(\d+)?.(weight|bias)', name): the dot is unescaped and
\* matches any character but a newline; the search is unanchored.
NormSearch(name) ==
    \E i \in 1..Len(name) :
        /\ StartsAt(name, i, Chars("bn")) \/ StartsAt(name, i, Chars("gn"))
        /\ \E k \in 0..Len(name) :
            /\ \A d \in 1..k : i + 1 + d <= Len(name) /\ name[i + 1 + d] \in Digits
            /\ i + 2 + k <= Len(name)
            /\ name[i + 2 + k] # "\n"
            /\ \/ StartsAt(name, i + 3 + k, Chars("weight"))
               \/ StartsAt(name, i + 3 + k, Chars("bias"))

\* '.'.join(path)
RECURSIVE Join(_)
Join(path) ==
    IF path = <<>> THEN <<>>
    ELSE IF Len(path) = 1 THEN Chars(path[1])
    ELSE Chars(path[1]) \o Chars(".") \o Join(Tail(path))

\* ---------------------------------------------------------------- values
\* A Python value: a number, a string, None, a list, a reference to a dict
\* object of the heap, an iterator over parameters, or a list of parameter
\* groups.
Val(t, n, s, ids, g) == [t |-> t, n |-> n, s |-> s, ids |-> ids, g |-> g]
None == Val("none", 0, "", <<>>, <<>>)
Num(n) == Val("num", n, "", <<>>, <<>>)
Str(s) == Val("str", 0, s, <<>>, <<>>)
Ref(r) == Val("ref", r, "", <<>>, <<>>)
NotADict == Val("list", 0, "", <<>>, <<>>)
Generator(ids) == Val("generator", 0, "", ids, <<>>)
GroupList(g) == Val("groups", 0, "", <<>>, g)
ParamList(ids) == Val("params", 0, "", ids, <<>>)

\* isinstance(v, dict)
IsDict(v) == v.t = "ref"

\* ---------------------------------------------------------------- dicts
\* key in d
Has(d, k) == \E i \in 1..Len(d) : d[i][1] = k

\* d.get(k, default)
Get(d, k, default) ==
    IF Has(d, k) THEN d[CHOOSE i \in 1..Len(d) : d[i][1] = k][2] ELSE default

\* the dict after d.pop(k, None)
RECURSIVE Pop(_, _)
Pop(d, k) ==
    IF d = <<>> THEN <<>>
    ELSE IF Head(d)[1] = k THEN Pop(Tail(d), k)
    ELSE <<Head(d)>> \o Pop(Tail(d), k)

\* the dict after d[k] = v
Set(d, k, v) ==
    IF Has(d, k) THEN [i \in 1..Len(d) |-> IF d[i][1] = k THEN <<k, v>> ELSE d[i]]
    ELSE Append(d, <<k, v>>)

\* list(d.keys())
Keys(d) == [i \in 1..Len(d) |-> d[i][1]]

\* d.copy(): a new object of the heap holding the same items (shallow)
dict_copy_alias(h, r) == [heap |-> h, ref |-> r]
dict_copy(h, r) == [heap |-> Append(h, h[r]), ref |-> Len(h) + 1]

\* ---------------------------------------------------------------- model
\* A model is a sequence of layers in registration order; a layer owns a
\* weight and a bias.  path is the layer's dotted module path from the root
\* (<<>> when the model itself is the layer).
Container == [cls |-> "Module", in_channels |-> 0, groups |-> 0]

\* hasattr(model, 'module') / model.module
hasattr_module(m) == m.wrapped
module_of(m) == [m EXCEPT !.wrapped = FALSE]

ModulePaths(m) ==
    {<<>>} \cup UNION {{SubSeq(m.layers[i].path, 1, k) :
                            k \in 0..Len(m.layers[i].path)} : i \in 1..Len(m.layers)}

ModuleAt(m, p) ==
    IF \E i \in 1..Len(m.layers) : m.layers[i].path = p
    THEN m.layers[CHOOSE i \in 1..Len(m.layers) : m.layers[i].path = p].module
    ELSE Container

\* dict(model.named_modules())
named_modules(m) ==
    [n \in {Join(p) : p \in ModulePaths(m)} |->
        ModuleAt(m, CHOOSE p \in ModulePaths(m) : Join(p) = n)]

QualifiedName(path, attr) ==
    IF path = <<>> THEN Chars(attr) ELSE Join(path) \o Chars(".") \o Chars(attr)

LayerParameters(l) ==
    << [id |-> l.ids[1], name |-> QualifiedName(l.path, "weight"),
        requires_grad |-> l.grads[1]],
       [id |-> l.ids[2], name |-> QualifiedName(l.path, "bias"),
        requires_grad |-> l.grads[2]] >>

\* list(model.named_parameters())
RECURSIVE ParametersOf(_)
ParametersOf(layers) ==
    IF layers = <<>> THEN <<>>
    ELSE LayerParameters(Head(layers)) \o ParametersOf(Tail(layers))

named_parameters(m) == ParametersOf(m.layers)

\* list(model.parameters())
parameters(m) == [i \in 1..Len(named_parameters(m)) |-> named_parameters(m)[i].id]

\* hasattr(model, key) for a child module name
HasChild(m, key) ==
    \E i \in 1..Len(m.layers) : m.layers[i].path # <<>> /\ m.layers[i].path[1] = key

StripLayer(l) == [l EXCEPT !.path = Tail(@)]

RECURSIVE ChildLayers(_, _)
ChildLayers(layers, key) ==
    IF layers = <<>> THEN <<>>
    ELSE IF Head(layers).path # <<>> /\ Head(layers).path[1] = key
         THEN <<StripLayer(Head(layers))>> \o ChildLayers(Tail(layers), key)
         ELSE ChildLayers(Tail(layers), key)

\* getattr(model, key)
getattr_whole(m, key) == m
getattr(m, key) == [wrapped |-> FALSE, layers |-> ChildLayers(m.layers, key)]

\* ---------------------------------------------------------------- results
NoOptimizer == [type |-> "", defaults |-> <<>>, param_groups |-> <<>>]
Returned(opt) == [kind |-> "Optimizer", opt |-> opt, opts |-> <<>>]
ReturnedDict(opts) == [kind |-> "dict", opt |-> NoOptimizer, opts |-> opts]
Raised(e) == [kind |-> e, opt |-> NoOptimizer, opts |-> <<>>]
NoResult == [kind |-> "", opt |-> NoOptimizer, opts |-> <<>>]
IsError(r) == r.kind \in {"TypeError", "ValueError", "AttributeError"}

\* build_from_cfg(optimizer_cfg, OPTIMIZERS): the registered class named by
\* 'type' is constructed with the remaining items as keyword arguments; the
\* optimizer wraps a plain iterable of parameters into one parameter group.
build_from_cfg(cfg) ==
    LET params == Get(cfg, "params", None)
    IN  [type |-> Get(cfg, "type", None).s,
         defaults |-> Pop(Pop(cfg, "type"), "params"),
         param_groups |->
            IF params.t = "generator"
            THEN << <<<<"params", ParamList(params.ids)>>>> >>
            ELSE params.g]

\* ---------------------------------------------------------------- build_optimizer
default_mult == 1

DecayMultKeys == {"bias_decay_mult", "norm_decay_mult", "dwconv_decay_mult"}

\* the guard of the ValueError: a decay multiplier is requested
decay_mult_requested_bias_only(pw) == Has(pw, "bias_decay_mult")
decay_mult_requested(pw) ==
    \/ Has(pw, "bias_decay_mult")
    \/ Has(pw, "norm_decay_mult")
    \/ Has(pw, "dwconv_decay_mult")

\* name.replace('.weight', '').replace('.bias', '')
module_name_of(name) == Remove(Remove(name, Chars(".weight")), Chars(".bias"))

\* isinstance(module, torch.nn.Conv2d) and module.in_channels == module.groups
is_depthwise(module) == module.cls = "Conv2d" /\ module.in_channels = module.groups

\* the group of a parameter that does not require grad
frozen_group_dropped(param) == <<>>
frozen_group(param) == << <<<<"params", ParamList(<<param.id>>)>>>> >>

\* the norm / bias branch of the loop body
norm_or_bias_lr_on_norm(g, name, base_lr, base_wd, bias_lr_mult, bias_decay_mult, norm_decay_mult) ==
    LET g1 == IF EndsWith(name, Chars(".bias"))
              THEN Set(g, "lr", Num(base_lr * bias_lr_mult)) ELSE g
    IN  IF NormSearch(name)
        THEN IF base_wd # None
             THEN Set(g1, "weight_decay", Num(base_wd.n * norm_decay_mult))
             ELSE g1
        ELSE IF EndsWith(name, Chars(".bias"))
        THEN IF base_wd # None
             THEN Set(g1, "weight_decay", Num(base_wd.n * bias_decay_mult))
             ELSE g1
        ELSE g
norm_or_bias_swapped_mults(g, name, base_lr, base_wd, bias_lr_mult, bias_decay_mult, norm_decay_mult) ==
    IF NormSearch(name)
    THEN IF base_wd # None
         THEN Set(g, "weight_decay", Num(base_wd.n * norm_decay_mult))
         ELSE g
    ELSE IF EndsWith(name, Chars(".bias"))
    THEN LET g1 == Set(g, "lr", Num(base_lr * bias_decay_mult))
         IN  IF base_wd # None
             THEN Set(g1, "weight_decay", Num(base_wd.n * bias_lr_mult))
             ELSE g1
    ELSE g
norm_or_bias(g, name, base_lr, base_wd, bias_lr_mult, bias_decay_mult, norm_decay_mult) ==
    IF NormSearch(name)
    THEN IF base_wd # None
         THEN Set(g, "weight_decay", Num(base_wd.n * norm_decay_mult))
         ELSE g
    ELSE IF EndsWith(name, Chars(".bias"))
    THEN LET g1 == Set(g, "lr", Num(base_lr * bias_lr_mult))
         IN  IF base_wd # None
             THEN Set(g1, "weight_decay", Num(base_wd.n * bias_decay_mult))
             ELSE g1
    ELSE g

\* the depthwise branch of the loop body
depthwise_keep_earlier(g, name, modules, base_wd, dwconv_decay_mult) ==
    LET module_name == module_name_of(name)
    IN  IF module_name \in DOMAIN modules /\ base_wd # None
           /\ is_depthwise(modules[module_name]) /\ ~Has(g, "weight_decay")
        THEN Set(g, "weight_decay", Num(base_wd.n * dwconv_decay_mult))
        ELSE g
depthwise_unguarded(g, name, modules, base_wd, dwconv_decay_mult) ==
    LET module_name == module_name_of(name)
    IN  IF module_name \in DOMAIN modules
        THEN IF is_depthwise(modules[module_name])
             THEN Set(g, "weight_decay", Num(base_wd.n * dwconv_decay_mult))
             ELSE g
        ELSE g
depthwise(g, name, modules, base_wd, dwconv_decay_mult) ==
    LET module_name == module_name_of(name)
    IN  IF module_name \in DOMAIN modules /\ base_wd # None
        THEN IF is_depthwise(modules[module_name])
             THEN Set(g, "weight_decay", Num(base_wd.n * dwconv_decay_mult))
             ELSE g
        ELSE g

\* one iteration of the loop: the groups appended for (name, param)
param_groups_of(param, modules, base_lr, base_wd, pw) ==
    LET bias_lr_mult == Get(pw, "bias_lr_mult", Num(default_mult)).n
        bias_decay_mult == Get(pw, "bias_decay_mult", Num(default_mult)).n
        norm_decay_mult == Get(pw, "norm_decay_mult", Num(default_mult)).n
        dwconv_decay_mult == Get(pw, "dwconv_decay_mult", Num(default_mult)).n
        g0 == <<<<"params", ParamList(<<param.id>>)>>>>
        g1 == norm_or_bias(g0, param.name, base_lr, base_wd, bias_lr_mult,
                           bias_decay_mult, norm_decay_mult)
        g2 == depthwise(g1, param.name, modules, base_wd, dwconv_decay_mult)
    IN  IF ~param.requires_grad THEN frozen_group(param) ELSE <<g2>>

RECURSIVE param_loop(_, _, _, _, _)
param_loop(np, modules, base_lr, base_wd, pw) ==
    IF np = <<>> THEN <<>>
    ELSE param_groups_of(Head(np), modules, base_lr, base_wd, pw)
            \o param_loop(Tail(np), modules, base_lr, base_wd, pw)

\* the value bound to optimizer_cfg['params'] without paramwise_options
global_params_trainable_only(m) ==
    Generator(SelectSeq(parameters(m),
        LAMBDA id : \E i \in 1..Len(named_parameters(m)) :
            named_parameters(m)[i].id = id /\ named_parameters(m)[i].requires_grad))
global_params(m) == Generator(parameters(m))

\* build_optimizer(model, optimizer_cfg) on the heap h: the heap after the
\* call and the value returned or the error raised.
build_optimizer(h, mdl, r) ==
    LET m == IF hasattr_module(mdl) THEN module_of(mdl) ELSE mdl
        c == dict_copy(h, r)
        paramwise_options == Get(c.heap[c.ref], "paramwise_options", None)
        h1 == [c.heap EXCEPT ![c.ref] = Pop(@, "paramwise_options")]
        optimizer_cfg == h1[c.ref]
        base_lr == Get(optimizer_cfg, "lr", None).n
        base_wd == Get(optimizer_cfg, "weight_decay", None)
        Finish(params) ==
            LET h2 == [h1 EXCEPT ![c.ref] = Set(@, "params", params)]
            IN  [heap |-> h2, ret |-> Returned(build_from_cfg(h2[c.ref]))]
    IN  IF paramwise_options = None
        THEN Finish(global_params(m))
        ELSE IF ~IsDict(paramwise_options)
        THEN [heap |-> h1, ret |-> Raised("TypeError")]
        ELSE IF decay_mult_requested(h1[paramwise_options.n]) /\ base_wd = None
        THEN [heap |-> h1, ret |-> Raised("ValueError")]
        ELSE Finish(GroupList(param_loop(named_parameters(m), named_modules(m),
                                         base_lr, base_wd, h1[paramwise_options.n])))

\* ---------------------------------------------------------------- inputs
Conv2d(in_channels, groups) ==
    [cls |-> "Conv2d", in_channels |-> in_channels, groups |-> groups]
BatchNorm2d == [cls |-> "BatchNorm2d", in_channels |-> 0, groups |-> 0]

LayerOption(uid, path, module, grads) ==
    [ids |-> <<2 * uid - 1, 2 * uid>>, path |-> path, module |-> module,
     grads |-> grads]

GradChoices == {<<TRUE, TRUE>>, <<FALSE, TRUE>>, <<FALSE, FALSE>>}

\* The layers a model is drawn from: a bare layer as the model itself, plain
\* and depthwise convolutions, a normalisation layer, and a depthwise
\* convolution whose name ends in "gn".
LayerOptions ==
    UNION {{LayerOption(1, <<>>, Conv2d(2, 2), gr),
            LayerOption(2, <<"conv">>, Conv2d(2, 1), gr),
            LayerOption(3, <<"conv">>, Conv2d(2, 2), gr),
            LayerOption(4, <<"bn1">>, BatchNorm2d, gr),
            LayerOption(5, <<"align">>, Conv2d(2, 2), gr)} : gr \in GradChoices}

MultiLayerOptions ==
    {LayerOption(2, <<"conv">>, Conv2d(2, 1), <<TRUE, TRUE>>),
     LayerOption(5, <<"align">>, Conv2d(2, 2), <<TRUE, TRUE>>),
     LayerOption(6, <<"g", "bn1">>, BatchNorm2d, <<TRUE, TRUE>>),
     LayerOption(7, <<"g", "conv">>, Conv2d(2, 2), <<FALSE, TRUE>>)}

\* No two layers share a path; no layer sits below another layer; the
\* model's own parameters come first.
CanRegister(layers, l) ==
    /\ l.path # <<>> \/ layers = <<>>
    /\ \A i \in 1..Len(layers) :
        /\ layers[i].path # l.path
        /\ layers[i].ids # l.ids
        /\ ~(Len(layers[i].path) < Len(l.path) /\ layers[i].path # <<>>
             /\ SubSeq(l.path, 1, Len(layers[i].path)) = layers[i].path)
        /\ ~(Len(l.path) < Len(layers[i].path) /\ l.path # <<>>
             /\ SubSeq(layers[i].path, 1, Len(l.path)) = l.path)

RECURSIVE LayerSeqs(_, _)
LayerSeqs(options, n) ==
    IF n = 0 THEN {<<>>}
    ELSE LET shorter == LayerSeqs(options, n - 1)
         IN  shorter \cup {Append(ls, l) : ls \in {x \in shorter : Len(x) = n - 1},
                                           l \in options}

Models(options) ==
    {[wrapped |-> w, layers |-> ls] :
        w \in BOOLEAN,
        ls \in {x \in LayerSeqs(options, MaxLayers) :
                    /\ x # <<>>
                    /\ \A i \in 1..Len(x) : CanRegister(SubSeq(x, 1, i - 1), x[i])}}

\* paramwise_options of a configuration: absent, not a dict, or a dict
\* holding some of the four multipliers.
MultValue(k) ==
    CASE k = "bias_lr_mult" -> 3
      [] k = "bias_decay_mult" -> 7
      [] k = "norm_decay_mult" -> 11
      [] k = "dwconv_decay_mult" -> 13

MultKeys == <<"bias_lr_mult", "bias_decay_mult", "norm_decay_mult", "dwconv_decay_mult">>

RECURSIVE PwDict(_, _)
PwDict(keys, i) ==
    IF i > Len(MultKeys) THEN <<>>
    ELSE (IF MultKeys[i] \in keys
          THEN << <<MultKeys[i], Num(MultValue(MultKeys[i]))>> >> ELSE <<>>)
         \o PwDict(keys, i + 1)

PwChoices ==
    {[kind |-> "absent", keys |-> {}], [kind |-> "list", keys |-> {}]}
    \cup {[kind |-> "dict", keys |-> ks] : ks \in SUBSET {MultKeys[i] : i \in 1..4}}

FlatShapes == {[lr |-> 2, wd |-> wd, pw |-> pw] : wd \in {0, 5}, pw \in PwChoices}

NestedShapes ==
    {[lr |-> 2, wd |-> 0, pw |-> [kind |-> "absent", keys |-> {}]],
     [lr |-> 3, wd |-> 5, pw |-> [kind |-> "dict", keys |-> {"bias_lr_mult", "norm_decay_mult"}]],
     [lr |-> 2, wd |-> 0, pw |-> [kind |-> "dict", keys |-> {"bias_decay_mult"}]]}

\* the configuration dict of a shape; pwref is where its paramwise_options
\* dict lives
FlatDict(f, pwref) ==
    << <<"type", Str("SGD")>>, <<"lr", Num(f.lr)>> >>
    \o (IF f.wd # 0 THEN << <<"weight_decay", Num(f.wd)>> >> ELSE <<>>)
    \o (CASE f.pw.kind = "absent" -> <<>>
          [] f.pw.kind = "list" -> << <<"paramwise_options", NotADict>> >>
          [] f.pw.kind = "dict" -> << <<"paramwise_options", Ref(pwref)>> >>)

PwObjects(f) == IF f.pw.kind = "dict" THEN <<PwDict(f.pw.keys, 1)>> ELSE <<>>

\* the caller's objects for a single configuration: the dict at 1
FlatHeap(f) == <<FlatDict(f, 2)>> \o PwObjects(f)

\* the caller's objects for a mapping of configurations: the mapping at 1,
\* the nested dicts at 2..n+1, their paramwise_options dicts after them
NumPwBefore(entries, j) ==
    Cardinality({i \in 1..(j - 1) : entries[i].f.pw.kind = "dict"})

RECURSIVE PwObjectsOf(_)
PwObjectsOf(entries) ==
    IF entries = <<>> THEN <<>>
    ELSE PwObjects(Head(entries).f) \o PwObjectsOf(Tail(entries))

MultiHeap(entries) ==
    LET n == Len(entries)
    IN  << [j \in 1..n |-> <<entries[j].key, Ref(1 + j)>>] >>
        \o [j \in 1..n |-> FlatDict(entries[j].f, n + 2 + NumPwBefore(entries, j))]
        \o PwObjectsOf(entries)

MultiKeys == {"conv", "align", "g"}

RECURSIVE EntrySeqs(_)
EntrySeqs(n) ==
    IF n = 0 THEN {<<>>}
    ELSE LET shorter == EntrySeqs(n - 1)
         IN  shorter \cup
             {Append(es, [key |-> k, f |-> f]) :
                es \in {x \in shorter : Len(x) = n - 1},
                k \in MultiKeys, f \in NestedShapes}

MultiEntries ==
    {es \in EntrySeqs(MaxKeys) :
        \A i, j \in 1..Len(es) : i # j => es[i].key # es[j].key}

\* ---------------------------------------------------------------- build_optimizer
InitCommon ==
    /\ cfgs = 1
    /\ ncaller = Len(heap)
    /\ is_dict_of_dict = TRUE
    /\ idx = 1
    /\ optimizers = <<>>
    /\ constructed = <<>>
    /\ ret = NoResult

Init ==
    /\ model \in Models(LayerOptions)
    /\ \E f \in FlatShapes : heap = FlatHeap(f)
    /\ pc = "build_optimizer"
    /\ InitCommon

log_construction(log, r) ==
    IF r.kind = "Optimizer" THEN Append(log, r.opt) ELSE log

\* a call of build_optimizer(model, cfgs) by the caller
BuildOptimizer ==
    /\ pc = "build_optimizer"
    /\ LET r == build_optimizer(heap, model, cfgs)
       IN  /\ heap' = r.heap
           /\ ret' = r.ret
           /\ constructed' = log_construction(constructed, r.ret)
    /\ pc' = "done"
    /\ UNCHANGED <<model, cfgs, ncaller, is_dict_of_dict, idx, optimizers>>

Next == BuildOptimizer

Spec == Init /\ [][Next]_vars

\* ---------------------------------------------------------------- build_optimizers
\* the model after `if hasattr(model, 'module'): model = model.module`
unwrapped(m) == IF hasattr_module(m) THEN module_of(m) ELSE m

\* what the caller gets when the build for a key raises err
propagate_partial(opts, err) == ReturnedDict(opts)
propagate(opts, err) == Raised(err)

InitMulti ==
    /\ model \in Models(MultiLayerOptions)
    /\ \/ \E es \in MultiEntries : heap = MultiHeap(es)
       \/ \E f \in FlatShapes : heap = FlatHeap(f)
    /\ pc = "build_optimizers"
    /\ InitCommon

\* lines 139-147: the scan that decides whether cfgs is a dict of dicts
Detect ==
    /\ pc = "build_optimizers"
    /\ optimizers' = <<>>
    /\ is_dict_of_dict' = \A i \in 1..Len(heap[cfgs]) : IsDict(heap[cfgs][i][2])
    /\ pc' = IF is_dict_of_dict' THEN "loop" ELSE "single"
    /\ UNCHANGED <<model, cfgs, heap, ncaller, idx, constructed, ret>>

\* lines 148-151: one iteration of the loop over cfgs.items()
Iterate ==
    /\ pc = "loop"
    /\ idx <= Len(heap[cfgs])
    /\ LET key == heap[cfgs][idx][1]
           cfg == heap[cfgs][idx][2]
           c == dict_copy(heap, cfg.n)
           m == unwrapped(model)
       IN  IF ~HasChild(m, key)
           THEN /\ heap' = c.heap
                /\ ret' = propagate(optimizers, "AttributeError")
                /\ pc' = "done"
                /\ UNCHANGED <<idx, optimizers, constructed>>
           ELSE LET r == build_optimizer(c.heap, getattr(m, key), c.ref)
                IN  /\ heap' = r.heap
                    /\ constructed' = log_construction(constructed, r.ret)
                    /\ IF IsError(r.ret)
                       THEN /\ ret' = propagate(optimizers, r.ret.kind)
                            /\ pc' = "done"
                            /\ UNCHANGED <<idx, optimizers>>
                       ELSE /\ optimizers' = Append(optimizers, <<key, r.ret.opt>>)
                            /\ idx' = idx + 1
                            /\ UNCHANGED <<ret, pc>>
    /\ UNCHANGED <<model, cfgs, ncaller, is_dict_of_dict>>

\* line 152: return optimizers
ReturnOptimizers ==
    /\ pc = "loop"
    /\ idx > Len(heap[cfgs])
    /\ ret' = ReturnedDict(optimizers)
    /\ pc' = "done"
    /\ UNCHANGED <<model, cfgs, heap, ncaller, is_dict_of_dict, idx, optimizers,
                   constructed>>

\* line 154: return build_optimizer(model, cfgs)
Single ==
    /\ pc = "single"
    /\ LET r == build_optimizer(heap, unwrapped(model), cfgs)
       IN  /\ heap' = r.heap
           /\ ret' = r.ret
           /\ constructed' = log_construction(constructed, r.ret)
    /\ pc' = "done"
    /\ UNCHANGED <<model, cfgs, ncaller, is_dict_of_dict, idx, optimizers>>

NextMulti == Detect \/ Iterate \/ ReturnOptimizers \/ Single

SpecMulti == InitMulti /\ [][NextMulti]_vars

\* ---------------------------------------------------------------- properties
Done == pc = "done"

\* the caller's configuration and what it asks for
Cfg == heap[cfgs]
PwValue == Get(Cfg, "paramwise_options", None)
PwGiven == PwValue # None
PwIsDict == IsDict(PwValue)
PW == heap[PwValue.n]
BaseLr == Get(Cfg, "lr", None).n
BaseWdSet == Has(Cfg, "weight_decay")
BaseWd == Get(Cfg, "weight_decay", None).n
Mult(k) == Get(PW, k, Num(default_mult)).n

\* the model the builder walks, its parameters and the emitted groups
M == unwrapped(model)
NP == named_parameters(M)
Groups == ret.opt.param_groups
Built == Done /\ ret.kind = "Optimizer"
BuiltParamwise == Built /\ PwGiven

Owner(i) == M.layers[(i + 1) \div 2]
OwnedByDepthwise(i) ==
    Owner(i).module.cls = "Conv2d"
    /\ Owner(i).module.groups = Owner(i).module.in_channels
IsSubModule(i) == Owner(i).path # <<>>
BiasSuffixed(i) == EndsWith(NP[i].name, Chars(".bias"))
NormNamed(i) == NormSearch(NP[i].name)
OnlyParams(g) == Keys(g) = <<"params">>

\* the ids of all parameters in the groups of an optimizer, in order
RECURSIVE GroupedIds(_)
GroupedIds(groups) ==
    IF groups = <<>> THEN <<>>
    ELSE Get(Head(groups), "params", None).ids \o GroupedIds(Tail(groups))

Occurrences(seq, x) == Cardinality({i \in 1..Len(seq) : seq[i] = x})

\* C1: when build_optimizer completes, every trainable parameter is in
\* exactly one group; with paramwise_options the i-th group holds exactly the
\* i-th named parameter, and the group of a parameter that does not require
\* grad has no lr and no weight_decay.
C1_Partition ==
    Built =>
        /\ \A i \in 1..Len(NP) :
            NP[i].requires_grad =>
                /\ Cardinality({j \in 1..Len(Groups) :
                        Occurrences(Get(Groups[j], "params", None).ids, NP[i].id) > 0}) = 1
                /\ Occurrences(GroupedIds(Groups), NP[i].id) = 1
        /\ PwGiven =>
            /\ Len(Groups) = Len(NP)
            /\ \A i \in 1..Len(NP) :
                /\ Get(Groups[i], "params", None) = ParamList(<<NP[i].id>>)
                /\ ~NP[i].requires_grad => OnlyParams(Groups[i])

C1_Witness ==
    /\ BuiltParamwise
    /\ \E i, j \in 1..Len(NP) : i < j /\ ~NP[i].requires_grad /\ NP[j].requires_grad
    /\ \E i \in 1..Len(Groups) : ~OnlyParams(Groups[i])

\* C8: without paramwise_options the optimizer is constructed with exactly
\* one group, holding all parameters of the model in model order and no lr
\* or weight_decay of its own.
C8_SingleGroup ==
    (Done /\ ~PwGiven) =>
        /\ ret.kind = "Optimizer"
        /\ constructed = <<ret.opt>>
        /\ Len(Groups) = 1
        /\ OnlyParams(Groups[1])
        /\ Groups[1][1][2] = ParamList([i \in 1..Len(NP) |-> NP[i].id])

C8_Witness ==
    /\ Built
    /\ ~PwGiven
    /\ Len(NP) > 2
    /\ \E i \in 1..Len(NP) : ~NP[i].requires_grad
    /\ BaseWdSet

\* C6: a decay multiplier in paramwise_options without weight_decay raises
\* ValueError and constructs no optimizer; bias_lr_mult alone does not raise.
C6_ValueError ==
    (Done /\ PwGiven /\ PwIsDict /\ ~BaseWdSet) =>
        /\ (\E k \in DecayMultKeys : Has(PW, k)) =>
                ret.kind = "ValueError" /\ constructed = <<>>
        /\ Keys(PW) = <<"bias_lr_mult">> => ret.kind = "Optimizer"

C6_Witness ==
    /\ Done
    /\ ret.kind = "ValueError"
    /\ constructed = <<>>
    /\ Has(PW, "dwconv_decay_mult")
    /\ ~Has(PW, "bias_decay_mult")

\* the module that name.replace('.weight', '').replace('.bias', '') names is
\* a depthwise convolution
ResolvesToDepthwise(i) ==
    LET n == Remove(Remove(NP[i].name, Chars(".weight")), Chars(".bias"))
    IN  /\ n \in {Join(p) : p \in ModulePaths(M)}
        /\ \E l \in 1..Len(M.layers) :
            /\ Join(M.layers[l].path) = n
            /\ M.layers[l].module.cls = "Conv2d"
            /\ M.layers[l].module.groups = M.layers[l].module.in_channels

WeightDecay(g) == Get(g, "weight_decay", None)
Lr(g) == Get(g, "lr", None)

\* C2 as claimed: every parameter owned by a depthwise convolution
\* sub-module is emitted with weight_decay = base_wd * dwconv_decay_mult
\* (read here with weight_decay set).
C2_AsClaimed ==
    (BuiltParamwise /\ PwIsDict /\ BaseWdSet) =>
        \A i \in 1..Len(NP) :
            (IsSubModule(i) /\ OwnedByDepthwise(i)) =>
                WeightDecay(Groups[i]) = Num(BaseWd * Mult("dwconv_decay_mult"))

\* C2 as amended: the depthwise weight decay is emitted for the trainable
\* parameters of a depthwise convolution sub-module when weight_decay is set,
\* and replaces what the bias or normalisation rule assigned; a parameter
\* that does not require grad gets no override, without weight_decay no
\* weight_decay is emitted, and the parameters of a model that is itself the
\* depthwise convolution are not recognised.
C2_Depthwise ==
    (BuiltParamwise /\ PwIsDict) =>
        \A i \in 1..Len(NP) :
            /\ (OwnedByDepthwise(i) /\ IsSubModule(i) /\ NP[i].requires_grad /\ BaseWdSet) =>
                    WeightDecay(Groups[i]) = Num(BaseWd * Mult("dwconv_decay_mult"))
            /\ (OwnedByDepthwise(i) /\ (~NP[i].requires_grad \/ ~BaseWdSet)) =>
                    ~Has(Groups[i], "weight_decay")
            /\ (OwnedByDepthwise(i) /\ ~IsSubModule(i)) => OnlyParams(Groups[i])

C2_Witness ==
    /\ BuiltParamwise /\ PwIsDict /\ BaseWdSet
    /\ Has(PW, "dwconv_decay_mult") /\ Has(PW, "bias_decay_mult")
    /\ Has(PW, "norm_decay_mult")
    /\ \E i, j \in 1..Len(NP) :
        /\ OwnedByDepthwise(i) /\ BiasSuffixed(i) /\ ~NormNamed(i) /\ NP[i].requires_grad
        /\ OwnedByDepthwise(j) /\ NormNamed(j) /\ NP[j].requires_grad
        /\ WeightDecay(Groups[i]) = Num(BaseWd * Mult("dwconv_decay_mult"))
        /\ WeightDecay(Groups[j]) = Num(BaseWd * Mult("dwconv_decay_mult"))

\* C3 as claimed: every bias-suffixed parameter outside the normalisation
\* pattern gets lr = base_lr * bias_lr_mult and, with base_wd set,
\* weight_decay = base_wd * bias_decay_mult.
C3_AsClaimed ==
    (BuiltParamwise /\ PwIsDict) =>
        \A i \in 1..Len(NP) :
            (BiasSuffixed(i) /\ ~NormNamed(i)) =>
                /\ Lr(Groups[i]) = Num(BaseLr * Mult("bias_lr_mult"))
                /\ BaseWdSet =>
                    WeightDecay(Groups[i]) = Num(BaseWd * Mult("bias_decay_mult"))

\* C3 as amended: that holds for the parameters that require grad, except
\* that the weight decay of a depthwise convolution's bias is
\* base_wd * dwconv_decay_mult.
C3_Bias ==
    (BuiltParamwise /\ PwIsDict) =>
        \A i \in 1..Len(NP) :
            (BiasSuffixed(i) /\ ~NormNamed(i) /\ NP[i].requires_grad) =>
                /\ Lr(Groups[i]) = Num(BaseLr * Mult("bias_lr_mult"))
                /\ (BaseWdSet /\ ~ResolvesToDepthwise(i)) =>
                    WeightDecay(Groups[i]) = Num(BaseWd * Mult("bias_decay_mult"))
                /\ (BaseWdSet /\ ResolvesToDepthwise(i)) =>
                    WeightDecay(Groups[i]) = Num(BaseWd * Mult("dwconv_decay_mult"))

C3_Witness ==
    /\ BuiltParamwise /\ PwIsDict /\ BaseWdSet
    /\ Has(PW, "bias_lr_mult") /\ Has(PW, "bias_decay_mult")
    /\ \E i \in 1..Len(NP) :
        /\ BiasSuffixed(i) /\ ~NormNamed(i) /\ NP[i].requires_grad
        /\ ~ResolvesToDepthwise(i)
        /\ Lr(Groups[i]) = Num(BaseLr * Mult("bias_lr_mult"))
        /\ WeightDecay(Groups[i]) = Num(BaseWd * Mult("bias_decay_mult"))

\* the group emitted for the i-th parameter had bias_lr_mult been v
GroupWithBiasLrMult(i, v) ==
    param_groups_of(NP[i], named_modules(M), BaseLr, Get(Cfg, "weight_decay", None),
                    Set(PW, "bias_lr_mult", Num(v)))

BiasLrMultValues == {1, 3, 4}

\* C4 as claimed: with base_wd set every parameter matching the
\* normalisation pattern gets weight_decay = base_wd * norm_decay_mult and a
\* group that does not depend on bias_lr_mult.
C4_AsClaimed ==
    (BuiltParamwise /\ PwIsDict /\ BaseWdSet) =>
        \A i \in 1..Len(NP) :
            NormNamed(i) =>
                /\ WeightDecay(Groups[i]) = Num(BaseWd * Mult("norm_decay_mult"))
                /\ ~Has(Groups[i], "lr")

\* C4 as amended: that holds for the parameters that require grad and whose
\* module is not a depthwise convolution (there the weight decay is
\* base_wd * dwconv_decay_mult); in every case the group carries no lr and
\* is the same for every bias_lr_mult.
C4_Norm ==
    (BuiltParamwise /\ PwIsDict /\ BaseWdSet) =>
        \A i \in 1..Len(NP) :
            NormNamed(i) =>
                /\ (NP[i].requires_grad /\ ~ResolvesToDepthwise(i)) =>
                    WeightDecay(Groups[i]) = Num(BaseWd * Mult("norm_decay_mult"))
                /\ (NP[i].requires_grad /\ ResolvesToDepthwise(i)) =>
                    WeightDecay(Groups[i]) = Num(BaseWd * Mult("dwconv_decay_mult"))
                /\ ~Has(Groups[i], "lr")
                /\ \A v \in BiasLrMultValues : GroupWithBiasLrMult(i, v) = <<Groups[i]>>

C4_Witness ==
    /\ BuiltParamwise /\ PwIsDict /\ BaseWdSet
    /\ Has(PW, "bias_lr_mult") /\ Has(PW, "norm_decay_mult")
    /\ \E i \in 1..Len(NP) :
        /\ NormNamed(i) /\ BiasSuffixed(i) /\ NP[i].requires_grad
        /\ ~ResolvesToDepthwise(i)
        /\ WeightDecay(Groups[i]) = Num(BaseWd * Mult("norm_decay_mult"))
        /\ ~Has(Groups[i], "lr")

\* C5 as claimed: with paramwise_options given and weight_decay unset, the
\* call fails exactly when a decay multiplier is present, and otherwise every
\* group holds its params entry only.
C5_AsClaimed ==
    (Done /\ PwGiven /\ PwIsDict /\ ~BaseWdSet) =>
        IF \E k \in DecayMultKeys : Has(PW, k)
        THEN IsError(ret)
        ELSE /\ ret.kind = "Optimizer"
             /\ \A i \in 1..Len(Groups) : OnlyParams(Groups[i])

\* C5 as amended: with paramwise_options a dict and weight_decay unset, the
\* call raises ValueError when a decay multiplier is present; otherwise no
\* group has a weight_decay, and the bias learning-rate override is still
\* applied: the trainable bias-suffixed parameters outside the normalisation
\* pattern get lr = base_lr * bias_lr_mult, all other groups hold params only.
C5_NoBaseWd ==
    (Done /\ PwGiven /\ PwIsDict /\ ~BaseWdSet) =>
        IF \E k \in DecayMultKeys : Has(PW, k)
        THEN ret.kind = "ValueError"
        ELSE /\ ret.kind = "Optimizer"
             /\ Len(Groups) = Len(NP)
             /\ \A i \in 1..Len(NP) :
                IF NP[i].requires_grad /\ BiasSuffixed(i) /\ ~NormNamed(i)
                THEN /\ Keys(Groups[i]) = <<"params", "lr">>
                     /\ Lr(Groups[i]) = Num(BaseLr * Mult("bias_lr_mult"))
                ELSE OnlyParams(Groups[i])

C5_Witness ==
    /\ BuiltParamwise /\ PwIsDict /\ ~BaseWdSet
    /\ Has(PW, "bias_lr_mult")
    /\ \E i, j, k \in 1..Len(NP) :
        /\ Has(Groups[i], "lr")
        /\ OwnedByDepthwise(j) /\ IsSubModule(j) /\ NP[j].requires_grad
        /\ NormNamed(k) /\ NP[k].requires_grad
        /\ OnlyParams(Groups[k])

\* ---------------------------------------------------------------- build_optimizers
AllDicts == \A i \in 1..Len(Cfg) : IsDict(Cfg[i][2])
Completed == Done /\ ~IsError(ret)

\* the ids of the parameters below the child named key, in model order
RECURSIVE IdsBelow(_, _)
IdsBelow(layers, key) ==
    IF layers = <<>> THEN <<>>
    ELSE (IF Head(layers).path # <<>> /\ Head(layers).path[1] = key
          THEN Head(layers).ids ELSE <<>>)
         \o IdsBelow(Tail(layers), key)

RECURSIVE AllIds(_)
AllIds(layers) ==
    IF layers = <<>> THEN <<>> ELSE Head(layers).ids \o AllIds(Tail(layers))

\* C7: build_optimizers returns, for a mapping whose values are all
\* mappings, a mapping with the keys of cfgs, each bound to the optimizer
\* build_optimizer builds from that key's configuration over the parameters
\* of the same-named sub-module only; otherwise the single optimizer
\* build_optimizer builds from cfgs over the whole model.
C7_Shape ==
    Completed =>
        IF AllDicts
        THEN /\ ret.kind = "dict"
             /\ Keys(ret.opts) = Keys(Cfg)
             /\ \A i \in 1..Len(Cfg) :
                /\ GroupedIds(ret.opts[i][2].param_groups) = IdsBelow(M.layers, Cfg[i][1])
                /\ ret.opts[i][2].type = Get(heap[Cfg[i][2].n], "type", None).s
                /\ ret.opts[i][2].defaults =
                        Pop(Pop(heap[Cfg[i][2].n], "type"), "paramwise_options")
                /\ ret.opts[i][2] =
                        build_optimizer(heap, [wrapped |-> FALSE,
                            layers |-> ChildLayers(M.layers, Cfg[i][1])], Cfg[i][2].n).ret.opt
        ELSE /\ ret.kind = "Optimizer"
             /\ GroupedIds(ret.opt.param_groups) = AllIds(M.layers)
             /\ ret.opt.type = Get(Cfg, "type", None).s
             /\ ret.opt = build_optimizer(heap, M, cfgs).ret.opt

C7_Witness ==
    /\ Completed
    /\ ret.kind = "dict"
    /\ Len(ret.opts) > 1
    /\ Len(M.layers) > 1
    /\ \A i \in 1..Len(ret.opts) :
        /\ Len(GroupedIds(ret.opts[i][2].param_groups)) > 0
        /\ Len(GroupedIds(ret.opts[i][2].param_groups)) < Len(AllIds(M.layers))
    /\ ret.opts[1][2] # ret.opts[2][2]

\* C9: no step of build_optimizer or build_optimizers changes an object the
\* caller supplied (the configuration mapping, its nested configurations,
\* their paramwise_options) or the model.
C9_Frame ==
    [][/\ model' = model
       /\ \A r \in 1..ncaller : heap'[r] = heap[r]]_vars

C9_Witness ==
    /\ Done
    /\ Len(heap) > ncaller
    /\ \E r \in 1..ncaller :
        /\ Has(heap[r], "paramwise_options")
        /\ \E q \in (ncaller + 1)..Len(heap) :
            /\ ~Has(heap[q], "paramwise_options")
            /\ Has(heap[q], "lr")

\* the build for the j-th key of cfgs fails
Fails(j) ==
    \/ ~HasChild(M, Cfg[j][1])
    \/ IsError(build_optimizer(heap, [wrapped |-> FALSE,
                   layers |-> ChildLayers(M.layers, Cfg[j][1])], Cfg[j][2].n).ret)

\* C10: on a mapping of mappings, when the build for some key fails the
\* caller gets the error of the first failing key and nothing else; the
\* optimizers constructed are those of the keys before it, none for a later
\* key.
C10_Abort ==
    (Done /\ is_dict_of_dict) =>
        IF \E j \in 1..Len(Cfg) : Fails(j)
        THEN /\ IsError(ret)
             /\ ret.opts = <<>>
             /\ ret.opt = NoOptimizer
             /\ Fails(idx)
             /\ \A j \in 1..(idx - 1) : ~Fails(j)
             /\ Len(constructed) = idx - 1
             /\ Keys(optimizers) = SubSeq(Keys(Cfg), 1, idx - 1)
        ELSE ret.kind = "dict"

C10_Witness ==
    /\ Done /\ is_dict_of_dict
    /\ IsError(ret)
    /\ idx > 1
    /\ idx < Len(Cfg)
    /\ ~Fails(idx + 1)
    /\ Len(constructed) = 1

====
